---- MODULE Spec2Model ----
(***************************************************************************)
(* Verification model of the pi-meshtastic-setup badge programs.           *)
(*                                                                         *)
(* Part I  : src/meshtastic-retro-ui.py  (BLE edition)                     *)
(*           _radio_worker (connection supervisor), its create_interface   *)
(*           helper threads, the pubsub callbacks, the curses foreground   *)
(*           loop _ui and main()'s teardown.                               *)
(* Part II : src/main.py (serial edition): on_text, the connection         *)
(*           callbacks, radio_worker, load_history and the send path of    *)
(*           run_ui.  The two programs have the same globals (stop_evt,    *)
(*           link_up_evt, incoming_q, the interface, the log and the       *)
(*           table), so they share the variables; env.prog says which      *)
(*           program runs.                                                 *)
(*                                                                         *)
(* The transport library (BLEInterface / SerialInterface, pubsub) and the  *)
(* user are the environment.  What the environment may do in a run is      *)
(* limited by the budget record `env`, fixed by each specification's       *)
(* initial state; an environment action is enabled only while its budget   *)
(* lasts, so a specification that leaves an action out of its next-state   *)
(* relation also gives it a zero budget.                                   *)
(***************************************************************************)
EXTENDS Integers, Sequences, FiniteSets, TLC

\* ------------------------------------------------------------ constants
max_retries == 10
connection_wait_time == 15
MAX_ERRORS == 3
BACKOFF_BASE == 10
BACKOFF_STEP == 5
BACKOFF_CAP == 60
INCOMING_CAP == 1024
OUTGOING_CAP == 256
MAX_LEN == 240

\* ------------------------------------------------------------ bounds
\* transport faults the environment may inject in the supervisor runs
MaxFaults == 10
\* interface creations that may outlast the 30 s creation wait
MaxSlow == 1
\* texts the user composes in the runs with sends
MaxSends == 2
\* text packets the transport delivers in the runs about the stored data
MaxPkts == 2
\* rows of the messages table when the history is loaded
MaxRows == 3

VARIABLES
    env,                 \* remaining environment budgets (record)
    now,                 \* time.time(), in whole seconds
    stop_evt, link_up_evt,
    iface,               \* _iface: 0 is None, k > 0 the BLEInterface of thread k
    inst,                \* the BLEInterface objects not yet closed: id -> node info
    thr,                 \* the running create_interface threads: id -> position
    interface_created,   \* the Event the closure cell is bound to: is it set
    interface_error,     \* interface_error[0] of the list the cell is bound to
    create_thread,       \* the create_interface thread the attempt under way started
    pc_w,                \* position of _radio_worker
    retry_count, consecutive_errors, hs_i, wait_time,
    outgoing_q, incoming_q,
    db,                  \* committed rows of the messages table, in insertion order
    txn,                 \* rows inserted in the connection's open transaction
    json_fh, db_open,    \* is the log file / the sqlite connection open
    pc_ui,               \* position of the main thread (main / _ui)
    msgs, send_mode, inp,
    put_msg,             \* the text a blocked outgoing_q.put is holding
    echo,                \* the row (ts, "You", text) the main thread is appending
    pc_rx, rx_item,      \* on_receive_text: position, the item it is appending
    rx_pkt,              \* history: the packet last handed to the text callback
    heard,               \* history: how often each packet was handed to it
    sent,                \* history: every sendText call <<text, ok>>
    confirmed,           \* history: every text the user confirmed with Enter
    stop_inst,           \* history: instance held in the drain loop when stop_evt was set
    stop_closes,         \* history: close() calls on that instance since then
    send_failed,         \* history: a sendText failed on the instance now held
    reset_from           \* history: the retry_count the attempt under way reset, or -1

radio == <<iface, inst, thr, interface_created, interface_error, create_thread>>
wloc  == <<pc_w, retry_count, consecutive_errors, hs_i, wait_time>>
store == <<db, txn, json_fh, db_open>>
ui    == <<pc_ui, msgs, send_mode, inp, put_msg, echo>>
rx    == <<pc_rx, rx_item, rx_pkt, heard>>
hist  == <<sent, confirmed, stop_inst, stop_closes, send_failed, reset_from>>
vars  == <<env, now, stop_evt, link_up_evt, radio, wloc, outgoing_q, incoming_q,
           store, ui, rx, hist>>

\* ------------------------------------------------------------ helpers
Min(a, b) == IF a < b THEN a ELSE b

Spend(f) == [env EXCEPT ![f] = @ - 1]

\* the process is alive until main() returns or ends with an exception; daemon
\* threads die with it
Alive == pc_ui # "exited"

\* the BLEInterface objects that can publish: those not closed, and those
\* whose constructor is still running
OpenInsts == DOMAIN inst \cup {k \in DOMAIN thr : thr[k] = "new"}

\* a name for the next create_interface thread and its BLEInterface
FreshId == CHOOSE k \in 1..(Cardinality(DOMAIN thr \cup DOMAIN inst) + 1) :
               k \notin DOMAIN thr \cup DOMAIN inst

Without(f, k) == [j \in DOMAIN f \ {k} |-> f[j]]

DrainPcs == {"drain_guard", "drain_get"}

\* stop_evt.set(); the history variable remembers the instance of a live session
SetStop ==
    /\ stop_evt' = TRUE
    /\ stop_inst' = IF ~stop_evt /\ pc_w \in DrainPcs THEN iface ELSE stop_inst
    /\ UNCHANGED stop_closes

\* ================================================================ PART I
\* ------------------------------------------------ _radio_worker (133-380)

\* variants of the retry-loop guard: one attempt short; no cap on the attempts
LoopGuard_OneShort(stop, rc) == ~stop /\ rc < max_retries - 1
LoopGuard_NoCap(stop, rc) == ~stop

\* `while not stop_evt.is_set() and retry_count < max_retries` (144)
LoopGuard(stop, rc) == ~stop /\ rc < max_retries

\* variant of the drain-loop guard: the loop ends at the first error
DrainGuard_FirstError(stop, ce) == ~stop /\ ce < 1

\* `while not stop_evt.is_set() and consecutive_errors < 3` (294)
DrainGuard(stop, ce) == ~stop /\ ce < MAX_ERRORS

\* variant: the step is subtracted
BackoffDelay_SignSlip(rc) == Min(BACKOFF_BASE - rc * BACKOFF_STEP, BACKOFF_CAP)

\* `wait_time = min(10 + retry_count * 5, 60)` (373)
BackoffDelay(rc) == Min(BACKOFF_BASE + rc * BACKOFF_STEP, BACKOFF_CAP)

\* variant: a text whose send failed goes back on the outbox
OutboxAfterSend_Requeue(q, ok) == IF ok THEN Tail(q) ELSE Append(Tail(q), Head(q))

\* what the drain loop leaves on the outbox after taking its head and calling
\* sendText on it; the text is dropped whether or not the send succeeded (297-342)
OutboxAfterSend(q, ok) == Tail(q)

\* variant: a verified connection leaves the count of failed attempts as it is
RetryAfterVerify_Keep(rc) == rc

\* `retry_count = 0  # Reset retry count on successful connection` (275)
RetryAfterVerify(rc) == 0

\* consecutive_errors after a sendText call (307, 335)
ErrorsAfterSend(ce, ok) == IF ok THEN 0 ELSE ce + 1

\* json_fh.write on the closed log raises ValueError; raised inside the try of
\* the retry loop it is raised again by the write of the except clause (352)
\* and by the write of the finally clause (360): the thread dies where it is
WorkerCrash ==
    /\ pc_w' = "crashed"
    /\ UNCHANGED <<retry_count, consecutive_errors, hs_i, wait_time>>

\* lines 135-142
WorkerStart ==
    /\ Alive /\ pc_w = "start"
    /\ IF env.addr THEN pc_w' = "guard"
       ELSE pc_w' = IF json_fh THEN "done" ELSE "crashed"
    /\ retry_count' = 0
    /\ UNCHANGED <<consecutive_errors, hs_i, wait_time>>
    /\ UNCHANGED <<env, now, stop_evt, link_up_evt, radio, outgoing_q, incoming_q,
                   store, ui, rx, hist>>

\* lines 144-183 when the loop goes on: clear the link flag, bind a fresh Event
\* and error slot to the closure cells, start a create_interface thread;
\* lines 378-380 when it ends
WorkerAttempt ==
    /\ Alive /\ pc_w = "guard"
    /\ IF LoopGuard(stop_evt, retry_count)
       THEN IF json_fh
            THEN /\ link_up_evt' = FALSE
                 /\ interface_created' = FALSE
                 /\ interface_error' = FALSE
                 /\ thr' = (FreshId :> "new") @@ thr
                 /\ create_thread' = FreshId
                 /\ reset_from' = -1
                 /\ pc_w' = "create_wait"
                 /\ UNCHANGED <<retry_count, consecutive_errors, hs_i, wait_time>>
            ELSE /\ WorkerCrash
                 /\ UNCHANGED <<link_up_evt, interface_created, interface_error, thr,
                                create_thread, reset_from>>
       ELSE /\ pc_w' = IF retry_count >= max_retries /\ ~json_fh THEN "crashed" ELSE "done"
            /\ UNCHANGED <<retry_count, consecutive_errors, hs_i, wait_time>>
            /\ UNCHANGED <<link_up_evt, interface_created, interface_error, thr,
                           create_thread, reset_from>>
    /\ UNCHANGED <<env, now, stop_evt, iface, inst, outgoing_q, incoming_q, store, ui, rx,
                   sent, confirmed, stop_inst, stop_closes, send_failed>>

\* lines 194-206 and, when one of the checks raises, 351-356
AfterCreateWait ==
    IF ~json_fh THEN WorkerCrash
    ELSE IF interface_error \/ ~interface_created \/ iface = 0
    THEN /\ pc_w' = "cleanup"
         /\ retry_count' = retry_count + 1
         /\ UNCHANGED <<consecutive_errors, hs_i, wait_time>>
    ELSE /\ pc_w' = "handshake"
         /\ hs_i' = 0
         /\ UNCHANGED <<retry_count, consecutive_errors, wait_time>>

\* lines 185-187: interface_created.wait(timeout=1) returns True
CreateWaitSet ==
    /\ Alive /\ pc_w = "create_wait"
    /\ interface_created
    /\ AfterCreateWait
    /\ UNCHANGED <<env, now, stop_evt, link_up_evt, radio, outgoing_q, incoming_q,
                   store, ui, rx, hist>>

\* lines 185-192: every one-second wait times out; the loop ends on stop_evt
\* or after interface_timeout of them, which takes a creation slower than that
CreateWaitTimeout ==
    /\ Alive /\ pc_w = "create_wait"
    /\ ~interface_created
    /\ IF stop_evt
       THEN AfterCreateWait /\ UNCHANGED env
       ELSE /\ env.slow > 0
            /\ env' = Spend("slow")
            /\ AfterCreateWait
    /\ UNCHANGED <<now, stop_evt, link_up_evt, radio, outgoing_q, incoming_q,
                   store, ui, rx, hist>>

\* leaving the handshake loop (213-243) for the final verification
ToFinal ==
    /\ pc_w' = "final"
    /\ UNCHANGED <<retry_count, consecutive_errors, hs_i, wait_time>>

\* one iteration of the handshake loop, lines 213-243
HandshakeStep ==
    /\ Alive /\ pc_w = "handshake"
    /\ IF stop_evt THEN ToFinal /\ UNCHANGED link_up_evt
       ELSE IF ~json_fh THEN WorkerCrash /\ UNCHANGED link_up_evt
       ELSE IF link_up_evt THEN ToFinal /\ UNCHANGED link_up_evt
       ELSE IF iface # 0 /\ inst[iface] = "user"
       THEN ToFinal /\ link_up_evt' = TRUE
       ELSE /\ UNCHANGED link_up_evt
            /\ IF hs_i + 1 < connection_wait_time
               THEN /\ hs_i' = hs_i + 1
                    /\ pc_w' = pc_w
                    /\ UNCHANGED <<retry_count, consecutive_errors, wait_time>>
               ELSE ToFinal
    /\ UNCHANGED <<env, now, stop_evt, radio, outgoing_q, incoming_q, store, ui, rx, hist>>

\* lines 245-292 (verified) and 346-349 (not verified)
FinalVerify ==
    /\ Alive /\ pc_w = "final"
    /\ IF ~json_fh THEN WorkerCrash /\ UNCHANGED <<link_up_evt, reset_from>>
       ELSE IF link_up_evt \/ (iface # 0 /\ inst[iface] # "dead")
       THEN /\ link_up_evt' = TRUE
            /\ retry_count' = RetryAfterVerify(retry_count)
            /\ reset_from' = retry_count
            /\ consecutive_errors' = 0
            /\ pc_w' = "drain_guard"
            /\ UNCHANGED <<hs_i, wait_time>>
       ELSE /\ retry_count' = retry_count + 1
            /\ pc_w' = "cleanup"
            /\ UNCHANGED <<link_up_evt, reset_from, consecutive_errors, hs_i, wait_time>>
    /\ UNCHANGED <<env, now, stop_evt, radio, outgoing_q, incoming_q, store, ui, rx,
                   sent, confirmed, stop_inst, stop_closes, send_failed>>

\* line 294, and 344 when the loop ends
DrainCheck ==
    /\ Alive /\ pc_w = "drain_guard"
    /\ IF DrainGuard(stop_evt, consecutive_errors)
       THEN pc_w' = "drain_get" /\ UNCHANGED <<retry_count, consecutive_errors, hs_i, wait_time>>
       ELSE IF json_fh
       THEN pc_w' = "cleanup" /\ UNCHANGED <<retry_count, consecutive_errors, hs_i, wait_time>>
       ELSE WorkerCrash
    /\ UNCHANGED <<env, now, stop_evt, link_up_evt, radio, outgoing_q, incoming_q,
                   store, ui, rx, hist>>

\* lines 297-308 and 333-342: outgoing_q.get returns a text, sendText is called
\* on the interface the global names (none: the text is dropped without a call)
DrainSend ==
    /\ Alive /\ pc_w = "drain_get"
    /\ outgoing_q # <<>>
    /\ \E ok \in BOOLEAN :
        /\ ok \/ (env.faults > 0 /\ iface # 0 /\ json_fh)
        /\ env' = IF ok THEN env ELSE Spend("faults")
        /\ outgoing_q' = OutboxAfterSend(outgoing_q, ok)
        /\ IF ~json_fh
           THEN WorkerCrash /\ UNCHANGED <<sent, send_failed>>
           ELSE IF iface = 0
           THEN /\ pc_w' = "drain_guard"
                /\ UNCHANGED <<sent, send_failed, retry_count, consecutive_errors, hs_i, wait_time>>
           ELSE /\ sent' = Append(sent, <<Head(outgoing_q), ok>>)
                /\ send_failed' = (send_failed \/ ~ok)
                /\ consecutive_errors' = ErrorsAfterSend(consecutive_errors, ok)
                /\ pc_w' = IF consecutive_errors' >= MAX_ERRORS THEN "cleanup" ELSE "drain_guard"
                /\ UNCHANGED <<retry_count, hs_i, wait_time>>
    /\ UNCHANGED <<now, stop_evt, link_up_evt, radio, incoming_q, store, ui, rx,
                   confirmed, stop_inst, stop_closes, reset_from>>

\* lines 310-331: outgoing_q.get times out after 5 s; a due heartbeat may fail
DrainEmpty ==
    /\ Alive /\ pc_w = "drain_get"
    /\ outgoing_q = <<>>
    /\ \E hb_ok \in BOOLEAN :
        /\ hb_ok \/ (env.faults > 0 /\ iface # 0)
        /\ env' = IF hb_ok THEN env ELSE Spend("faults")
        /\ IF hb_ok
           THEN pc_w' = "drain_guard" /\ UNCHANGED <<retry_count, consecutive_errors, hs_i, wait_time>>
           ELSE IF json_fh
           THEN /\ consecutive_errors' = consecutive_errors + 1
                /\ pc_w' = "drain_guard"
                /\ UNCHANGED <<retry_count, hs_i, wait_time>>
           ELSE WorkerCrash
    /\ UNCHANGED <<now, stop_evt, link_up_evt, radio, outgoing_q, incoming_q, store,
                   ui, rx, hist>>

\* lines 358-361
Cleanup ==
    /\ Alive /\ pc_w = "cleanup"
    /\ IF json_fh
       THEN /\ link_up_evt' = FALSE
            /\ pc_w' = "cleanup_close"
            /\ UNCHANGED <<retry_count, consecutive_errors, hs_i, wait_time>>
       ELSE WorkerCrash /\ UNCHANGED link_up_evt
    /\ UNCHANGED <<env, now, stop_evt, radio, outgoing_q, incoming_q, store, ui, rx, hist>>

\* lines 362-376: close the interface the global names, forget it, and start
\* the backoff wait unless stopping or out of retries
CleanupClose ==
    /\ Alive /\ pc_w = "cleanup_close"
    /\ inst' = Without(inst, iface)
    /\ stop_closes' = IF iface # 0 /\ iface = stop_inst THEN stop_closes + 1 ELSE stop_closes
    /\ send_failed' = FALSE
    /\ IF iface # 0 /\ ~json_fh
       THEN WorkerCrash /\ UNCHANGED iface
       ELSE /\ iface' = 0
            /\ UNCHANGED <<retry_count, consecutive_errors, hs_i>>
            /\ IF LoopGuard(stop_evt, retry_count)
               THEN /\ wait_time' = BackoffDelay(retry_count)
                    /\ pc_w' = IF json_fh THEN "backoff" ELSE "crashed"
               ELSE /\ pc_w' = "guard"
                    /\ UNCHANGED wait_time
    /\ UNCHANGED <<env, now, stop_evt, link_up_evt, thr, interface_created,
                   interface_error, create_thread, outgoing_q, incoming_q, store, ui,
                   rx, sent, confirmed, stop_inst, reset_from>>

\* line 376: stop_evt.wait(wait_time) returns, on the time-out or on stop_evt
BackoffDone ==
    /\ Alive /\ pc_w = "backoff"
    /\ pc_w' = "guard"
    /\ UNCHANGED <<retry_count, consecutive_errors, hs_i, wait_time>>
    /\ UNCHANGED <<env, now, stop_evt, link_up_evt, radio, outgoing_q, incoming_q,
                   store, ui, rx, hist>>

\* ------------------------------------ create_interface threads (161-179)

\* lines 164-167: the BLEInterface constructor returns an object, which is
\* assigned to _iface under the lock, or it raises (170-174).  What
\* getMyNodeInfo() of the object answers is fixed here: "user" a dict with a
\* 'user' entry, "nouser" a dict without one, "dead" None or an exception
CreateInterface(k) ==
    /\ Alive /\ k \in DOMAIN thr /\ thr[k] = "new"
    /\ IF ~json_fh
       THEN /\ thr' = Without(thr, k)
            /\ UNCHANGED <<env, inst, iface, interface_error>>
       ELSE \/ /\ inst' = (k :> "user") @@ inst
               /\ iface' = k
               /\ thr' = [thr EXCEPT ![k] = "set"]
               /\ UNCHANGED <<env, interface_error>>
            \/ /\ env.nouser > 0
               /\ env' = Spend("nouser")
               /\ inst' = (k :> "nouser") @@ inst
               /\ iface' = k
               /\ thr' = [thr EXCEPT ![k] = "set"]
               /\ UNCHANGED interface_error
            \/ /\ env.faults > 0
               /\ env' = Spend("faults")
               /\ inst' = (k :> "dead") @@ inst
               /\ iface' = k
               /\ thr' = [thr EXCEPT ![k] = "set"]
               /\ UNCHANGED interface_error
            \/ /\ env.faults > 0
               /\ env' = Spend("faults")
               /\ interface_error' = TRUE
               /\ thr' = [thr EXCEPT ![k] = "err"]
               /\ UNCHANGED <<inst, iface>>
    /\ UNCHANGED <<now, stop_evt, link_up_evt, interface_created, create_thread, wloc,
                   outgoing_q, incoming_q, store, ui, rx, hist>>

\* lines 168-169 and 175: interface_created.set(), on the Event the cell of the
\* enclosing function is bound to when the call is made; the thread ends
SignalCreated(k) ==
    /\ Alive /\ k \in DOMAIN thr /\ thr[k] \in {"set", "err"}
    /\ interface_created' = (json_fh \/ thr[k] = "err" \/ interface_created)
    /\ thr' = Without(thr, k)
    /\ UNCHANGED <<env, now, stop_evt, link_up_evt, iface, inst, interface_error,
                   create_thread, wloc, outgoing_q, incoming_q, store, ui, rx, hist>>

\* ------------------------------------------------ pubsub callbacks (98-109)
on_connection_established ==
    /\ env.prog = "ble"
    /\ Alive /\ OpenInsts # {}
    /\ env.estab > 0
    /\ env' = Spend("estab")
    /\ link_up_evt' = TRUE
    /\ UNCHANGED <<now, stop_evt, radio, wloc, outgoing_q, incoming_q, store, ui, rx, hist>>

on_connection_lost ==
    /\ env.prog = "ble"
    /\ Alive /\ OpenInsts # {}
    /\ env.lost > 0
    /\ env' = Spend("lost")
    /\ link_up_evt' = FALSE
    /\ UNCHANGED <<now, stop_evt, radio, wloc, outgoing_q, incoming_q, store, ui, rx, hist>>

\* ------------------------------------------------------------ time stamps
\* A time stamp is a fixed-point number of seconds with three decimals, held
\* as [hi, lo] = hi * 1000 + lo / 1000 seconds with 0 <= lo < 10^6, so that
\* both 1.7e9 (seconds) and 1.7e12 (milliseconds) fit TLC's integers.
Ts(sec) == [hi |-> sec \div 1000, lo |-> (sec % 1000) * 1000]
TsMilli(ms) == [hi |-> ms, lo |-> 0]      \* a raw value of ms * 1000
TsGt(a, b) == a.hi > b.hi \/ (a.hi = b.hi /\ a.lo > b.lo)
TsDiv1000(a) == [hi |-> a.hi \div 1000, lo |-> (a.hi % 1000) * 1000 + a.lo \div 1000]
MS_THRESHOLD == [hi |-> 10^9, lo |-> 0]   \* 1e12

\* `if ts > 1e12: ts /= 1000` (83-84)
NormalizeTs(ts) == IF TsGt(ts, MS_THRESHOLD) THEN TsDiv1000(ts) ELSE ts

\* time.time() of the model's clock
Clock == Ts(17 * 10^8 + now)

Tick ==
    /\ env.ticks > 0
    /\ env' = Spend("ticks")
    /\ now' = now + 1
    /\ UNCHANGED <<stop_evt, link_up_evt, radio, wloc, outgoing_q, incoming_q,
                   store, ui, rx, hist>>

\* ------------------------------------------------------------ texts
\* a text is a sequence of one-character strings
Take(t, n) == SubSeq(t, 1, Min(Len(t), n))

RECURSIVE LStrip(_)
LStrip(t) == IF t # <<>> /\ Head(t) = " " THEN LStrip(Tail(t)) ELSE t

RECURSIVE RStrip(_)
RStrip(t) == IF t # <<>> /\ t[Len(t)] = " " THEN RStrip(SubSeq(t, 1, Len(t) - 1)) ELSE t

\* str.strip() on keys 32..126, of which only the blank is white space (502)
Strip(t) == RStrip(LStrip(t))

\* ------------------------------------------------ on_receive_text (54-95)
\* A packet: form "dict" or "obj"; hasText whether decoded.text is there, and
\* text its value; sender the field that names the sender ("fromId", "from"
\* or "none"); hasRx whether rxTime is there, and rxTime its value; hasStamp
\* and stamp the same for the "timestamp" entry.
PacketText(p) == Take(p.text, MAX_LEN)

\* lines 66-74; "raise" is the TypeError of packet['from'] on an object
PacketSender(p) ==
    CASE p.sender = "fromId" -> "!node"
      [] p.sender = "from" /\ p.form = "dict" -> "!hex"
      [] p.sender = "from" /\ p.form = "obj" -> "raise"
      [] OTHER -> "unknown"

\* lines 77-84
PacketTs(p) == NormalizeTs(IF p.hasRx THEN p.rxTime ELSE Clock)

\* queue.Queue.put: there is room for the item
HasRoom(q, cap) == Len(q) < cap

\* one more delivery of packet p in the count of deliveries h
Heard(h, p) == IF p \in DOMAIN h THEN [h EXCEPT ![p] = @ + 1] ELSE (p :> 1) @@ h

\* the positions in which the transport's reader thread can call the text
\* callback: after a call that returned, or after one that raised into it
RxReady == {"idle", "raised", "append_raised"}

\* variant: a commit leaves in the table only the rows of the transaction
Commit_Overwrite(rows, pending) == pending

\* One sqlite3 connection is shared by the threads (34, check_same_thread =
\* False), and a transaction belongs to the connection: an INSERT opens it or
\* joins the open one, and the end of a `with db:` block commits, or after an
\* exception rolls back, whatever the connection's transaction holds.
Commit(rows, pending) == rows \o pending

\* lines 54-90: parse the packet, write the log, execute the INSERT.  A packet
\* without text returns at 64.  An exception (the TypeError of line 71, a
\* write to the closed log, an INSERT that raises and is rolled back) is logged
\* at 95, and that write raises into the caller when the log is closed.
on_receive_text(p) ==
    /\ env.prog = "ble"
    /\ Alive /\ OpenInsts # {}
    /\ pc_rx \in RxReady
    /\ env.pkts > 0
    /\ rx_pkt' = p
    /\ heard' = Heard(heard, p)
    /\ LET item == <<PacketTs(p), PacketSender(p), PacketText(p)>> IN
       IF ~p.hasText
       THEN /\ env' = Spend("pkts")
            /\ pc_rx' = "idle"
            /\ UNCHANGED <<txn, rx_item>>
       ELSE IF PacketSender(p) = "raise" \/ ~json_fh
       THEN /\ env' = Spend("pkts")
            /\ pc_rx' = IF json_fh THEN "idle" ELSE "raised"
            /\ UNCHANGED <<txn, rx_item>>
       ELSE \/ /\ db_open
               /\ env' = Spend("pkts")
               /\ txn' = Append(txn, item)
               /\ pc_rx' = "commit"
               /\ rx_item' = item
            \/ /\ env.dbfaults > 0
               /\ env' = [env EXCEPT !.pkts = @ - 1, !.dbfaults = @ - 1]
               /\ txn' = <<>>
               /\ pc_rx' = "idle"
               /\ UNCHANGED rx_item
    /\ UNCHANGED <<now, stop_evt, link_up_evt, radio, wloc, outgoing_q, incoming_q,
                   db, json_fh, db_open, ui, hist>>

\* lines 90-91: the end of the `with db:` block commits the transaction
RxCommit ==
    /\ env.prog = "ble"
    /\ Alive /\ pc_rx = "commit"
    /\ db' = Commit(db, txn)
    /\ txn' = <<>>
    /\ pc_rx' = "put"
    /\ UNCHANGED <<rx_item, rx_pkt, heard, json_fh, db_open>>
    /\ UNCHANGED <<env, now, stop_evt, link_up_evt, radio, wloc, outgoing_q, incoming_q,
                   ui, hist>>

\* line 92: incoming_q.put(item), which has no time-out: it returns when the
\* inbox has room, and waits for the foreground to take an item while it is full
InboxPut ==
    /\ env.prog = "ble"
    /\ Alive /\ pc_rx = "put"
    /\ HasRoom(incoming_q, INCOMING_CAP)
    /\ incoming_q' = Append(incoming_q, rx_item)
    /\ pc_rx' = "idle"
    /\ rx_item' = <<>>
    /\ UNCHANGED <<rx_pkt, heard>>
    /\ UNCHANGED <<env, now, stop_evt, link_up_evt, radio, wloc, outgoing_q, store,
                   ui, hist>>

\* ------------------------------------------------ _history (387-390)
HISTORY_LIMIT == 2000

Perms(n) == {f \in [1..n -> 1..n] : \A i, j \in 1..n : f[i] = f[j] => i = j}

\* `ORDER BY ts DESC`: the orders the rows may come in.  SQL leaves the order
\* of rows of equal ts open, so each of them is a possible result.
OrderByTsDesc(rows) ==
    LET n == Len(rows)
        desc(f) == \A i \in 1..(n - 1) : ~TsGt(rows[f[i + 1]][1], rows[f[i]][1])
    IN  {[i \in 1..n |-> rows[f[i]]] : f \in {g \in Perms(n) : desc(g)}}

Reversed(rows) == [i \in 1..Len(rows) |-> rows[Len(rows) + 1 - i]]

\* variant: the rows as fetched, newest first
History_AsFetched(rows, limit) == {Take(o, limit) : o \in OrderByTsDesc(rows)}

\* `LIMIT ?` and list(reversed(cur.fetchall())): the possible results
History(rows, limit) == {Reversed(Take(o, limit)) : o \in OrderByTsDesc(rows)}

\* ------------------------------------------------ _ui (402-536), main (543-550)

\* line 417: the one-shot load of the history
UiLoad ==
    /\ env.prog = "ble"
    /\ pc_ui = "init"
    /\ msgs' \in History(Commit(db, txn), env.limit)
    /\ pc_ui' = "loop"
    /\ UNCHANGED <<send_mode, inp, put_msg, echo>>
    /\ UNCHANGED <<env, now, stop_evt, link_up_evt, radio, wloc, outgoing_q,
                   incoming_q, store, rx, hist>>

\* variant: the items taken from the inbox are put in front of the list
DrainInbox_InFront(list, q) == q \o list

\* lines 426-434: `while True: msgs.append(incoming_q.get_nowait())` until the
\* inbox is empty; the list after it
DrainInbox(list, q) == list \o q

\* lines 424-496: the loop guard, the drain of the inbox, the redraw, and then
\* the (blocking) stdscr.getch()
UiTick ==
    /\ env.prog = "ble"
    /\ pc_ui = "loop"
    /\ IF stop_evt
       THEN pc_ui' = "returned" /\ UNCHANGED <<msgs, incoming_q>>
       ELSE /\ msgs' = DrainInbox(msgs, incoming_q)
            /\ incoming_q' = <<>>
            /\ pc_ui' = "getch"
    /\ UNCHANGED <<send_mode, inp, put_msg, echo>>
    /\ UNCHANGED <<env, now, stop_evt, link_up_evt, radio, wloc, outgoing_q, store,
                   rx, hist>>

\* The keys the user will press are the script env.keys; getch() returns its
\* head.  Keys are named by strings: the printable ones by their character.
Printable == {"a", "b", " ", "s", "q"}

KeyIs(ks) == env.prog = "ble" /\ pc_ui = "getch" /\ env.keys # <<>> /\ Head(env.keys) \in ks

TakeKey == env' = [env EXCEPT !.keys = Tail(@)]

\* lines 533-534
KeySend ==
    /\ KeyIs({"s"}) /\ ~send_mode
    /\ TakeKey
    /\ send_mode' = TRUE
    /\ inp' = <<>>
    /\ pc_ui' = "loop"
    /\ UNCHANGED <<msgs, put_msg, echo>>
    /\ UNCHANGED <<now, stop_evt, link_up_evt, radio, wloc, outgoing_q,
                   incoming_q, store, rx, hist>>

\* lines 535-536
KeyQuit ==
    /\ KeyIs({"q"}) /\ ~send_mode
    /\ TakeKey
    /\ SetStop
    /\ pc_ui' = "loop"
    /\ UNCHANGED <<msgs, send_mode, inp, put_msg, echo>>
    /\ UNCHANGED <<now, link_up_evt, radio, wloc, outgoing_q, incoming_q, store, rx,
                   sent, confirmed, send_failed, reset_from>>

\* lines 514-516
KeyChar ==
    /\ KeyIs(Printable) /\ send_mode
    /\ TakeKey
    /\ inp' = Append(inp, Head(env.keys))
    /\ pc_ui' = "loop"
    /\ UNCHANGED <<msgs, send_mode, put_msg, echo>>
    /\ UNCHANGED <<now, stop_evt, link_up_evt, radio, wloc, outgoing_q, incoming_q,
                   store, rx, hist>>

\* lines 512-513
KeyBackspace ==
    /\ KeyIs({"Bksp"}) /\ send_mode
    /\ TakeKey
    /\ inp' = IF inp = <<>> THEN <<>> ELSE SubSeq(inp, 1, Len(inp) - 1)
    /\ pc_ui' = "loop"
    /\ UNCHANGED <<msgs, send_mode, put_msg, echo>>
    /\ UNCHANGED <<now, stop_evt, link_up_evt, radio, wloc, outgoing_q,
                   incoming_q, store, rx, hist>>

\* lines 510-511
KeyEsc ==
    /\ KeyIs({"Esc"}) /\ send_mode
    /\ TakeKey
    /\ send_mode' = FALSE
    /\ pc_ui' = "loop"
    /\ UNCHANGED <<msgs, inp, put_msg, echo>>
    /\ UNCHANGED <<now, stop_evt, link_up_evt, radio, wloc, outgoing_q,
                   incoming_q, store, rx, hist>>

\* lines 501-507: Enter in send mode; for a text that is not blank the INSERT
\* is executed.  Nothing catches an INSERT that raises: the `with` block rolls
\* back and the exception leaves _ui.
KeyEnter ==
    /\ KeyIs({"Enter"}) /\ send_mode
    /\ LET msg == Strip(inp)
           row == <<Clock, "You", msg>>
           e   == [env EXCEPT !.keys = Tail(@)]
       IN  /\ send_mode' = FALSE
           /\ inp' = <<>>
           /\ IF msg = <<>>
              THEN /\ env' = e
                   /\ pc_ui' = "loop"
                   /\ UNCHANGED <<txn, confirmed, put_msg, echo>>
              ELSE /\ confirmed' = Append(confirmed, msg)
                   /\ \/ /\ env' = e
                         /\ txn' = Append(txn, row)
                         /\ echo' = row
                         /\ put_msg' = msg
                         /\ pc_ui' = "commit"
                      \/ /\ env.dbfaults > 0
                         /\ env' = [e EXCEPT !.dbfaults = @ - 1]
                         /\ txn' = <<>>
                         /\ pc_ui' = "crashed"
                         /\ UNCHANGED <<put_msg, echo>>
    /\ UNCHANGED <<now, stop_evt, link_up_evt, radio, wloc, outgoing_q, incoming_q,
                   db, json_fh, db_open, msgs, rx, sent, stop_inst, stop_closes,
                   send_failed, reset_from>>

\* lines 507-508: the end of the `with db:` block commits the transaction, and
\* the row is appended to the list on the screen
UiCommit ==
    /\ env.prog = "ble"
    /\ pc_ui = "commit"
    /\ db' = Commit(db, txn)
    /\ txn' = <<>>
    /\ msgs' = Append(msgs, echo)
    /\ echo' = <<>>
    /\ pc_ui' = "put"
    /\ UNCHANGED <<send_mode, inp, put_msg, json_fh, db_open>>
    /\ UNCHANGED <<env, now, stop_evt, link_up_evt, radio, wloc, outgoing_q, incoming_q,
                   rx, hist>>

\* line 509: outgoing_q.put(msg), which has no time-out: it returns when the
\* outbox has room, and waits for the worker to take an item while it is full
OutboxPut ==
    /\ pc_ui = "put"
    /\ HasRoom(outgoing_q, OUTGOING_CAP)
    /\ outgoing_q' = Append(outgoing_q, put_msg)
    /\ put_msg' = <<>>
    /\ pc_ui' = "loop"
    /\ UNCHANGED <<msgs, send_mode, inp, echo>>
    /\ UNCHANGED <<env, now, stop_evt, link_up_evt, radio, wloc, incoming_q, store,
                   rx, hist>>

\* lines 539-540: SIGINT or SIGTERM; the handler runs in the main thread, a
\* pending getch() returns -1, a pending queue put goes on waiting
Signal ==
    /\ pc_ui \notin {"exited"}
    /\ env.sigs > 0
    /\ env' = Spend("sigs")
    /\ SetStop
    /\ pc_ui' = IF pc_ui = "getch" THEN "loop" ELSE pc_ui
    /\ UNCHANGED <<msgs, send_mode, inp, put_msg, echo>>
    /\ UNCHANGED <<now, link_up_evt, radio, wloc, outgoing_q, incoming_q, store, rx,
                   sent, confirmed, send_failed, reset_from>>

\* line 548
MainStop ==
    /\ pc_ui = "returned"
    /\ SetStop
    /\ pc_ui' = "close_log"
    /\ UNCHANGED <<msgs, send_mode, inp, put_msg, echo>>
    /\ UNCHANGED <<env, now, link_up_evt, radio, wloc, outgoing_q, incoming_q, store,
                   rx, sent, confirmed, send_failed, reset_from>>

\* line 549
MainCloseLog ==
    /\ pc_ui = "close_log"
    /\ json_fh' = FALSE
    /\ pc_ui' = "close_db"
    /\ UNCHANGED <<msgs, send_mode, inp, put_msg, echo, db, txn, db_open>>
    /\ UNCHANGED <<env, now, stop_evt, link_up_evt, radio, wloc, outgoing_q,
                   incoming_q, rx, hist>>

\* line 550, and the return of main(): the interpreter exits without joining
\* the daemon threads
MainExit ==
    /\ pc_ui = "close_db"
    /\ db_open' = FALSE
    /\ pc_ui' = "exited"
    /\ UNCHANGED <<msgs, send_mode, inp, put_msg, echo, db, txn, json_fh>>
    /\ UNCHANGED <<env, now, stop_evt, link_up_evt, radio, wloc, outgoing_q,
                   incoming_q, rx, hist>>

\* line 547: an exception that leaves _ui passes through curses.wrapper and
\* ends main() before its clean-up; the process exits with the traceback
MainRaise ==
    /\ env.prog = "ble"
    /\ pc_ui = "crashed"
    /\ pc_ui' = "exited"
    /\ UNCHANGED <<msgs, send_mode, inp, put_msg, echo>>
    /\ UNCHANGED <<env, now, stop_evt, link_up_evt, radio, wloc, outgoing_q,
                   incoming_q, store, rx, hist>>

\* ================================================================ PART II
\* ------------------------------------------------ main.py radio_worker (85-113)
SerialPcs == {"s_guard", "s_hold", "s_except", "s_finally", "s_done", "s_crashed"}

\* lines 87-98: the loop guard, then SerialInterface(devPath=DEV_PATH) and, when
\* that raises, SerialInterface(); the object is assigned to the global
SerialOpen ==
    /\ Alive /\ pc_w = "s_guard"
    /\ IF stop_evt
       THEN pc_w' = "s_done" /\ UNCHANGED <<env, inst, iface>>
       ELSE \/ /\ inst' = (FreshId :> "user") @@ inst
               /\ iface' = FreshId
               /\ pc_w' = "s_hold"
               /\ UNCHANGED env
            \/ /\ env.faults > 0
               /\ env' = Spend("faults")
               /\ pc_w' = "s_except"
               /\ UNCHANGED <<inst, iface>>
    /\ UNCHANGED <<retry_count, consecutive_errors, hs_i, wait_time>>
    /\ UNCHANGED <<now, stop_evt, link_up_evt, thr, interface_created, interface_error,
                   create_thread, outgoing_q, incoming_q, store, ui, rx, hist>>

\* lines 100-101: `while not stop_evt.wait(0.5): pass` ends when stop_evt is set
SerialHold ==
    /\ Alive /\ pc_w = "s_hold"
    /\ stop_evt
    /\ pc_w' = "s_finally"
    /\ UNCHANGED <<retry_count, consecutive_errors, hs_i, wait_time>>
    /\ UNCHANGED <<env, now, stop_evt, link_up_evt, radio, outgoing_q, incoming_q,
                   store, ui, rx, hist>>

\* lines 103-106; on a closed log the write raises and the thread ends after
\* its finally clause, which has no interface to close on this path
SerialExcept ==
    /\ Alive /\ pc_w = "s_except"
    /\ IF json_fh
       THEN link_up_evt' = FALSE /\ pc_w' = "s_finally"
       ELSE UNCHANGED link_up_evt /\ pc_w' = "s_crashed"
    /\ UNCHANGED <<retry_count, consecutive_errors, hs_i, wait_time>>
    /\ UNCHANGED <<env, now, stop_evt, radio, outgoing_q, incoming_q, store, ui, rx, hist>>

\* lines 108-113
SerialFinally ==
    /\ Alive /\ pc_w = "s_finally"
    /\ inst' = Without(inst, iface)
    /\ stop_closes' = IF iface # 0 /\ iface = stop_inst THEN stop_closes + 1 ELSE stop_closes
    /\ iface' = 0
    /\ pc_w' = "s_guard"
    /\ UNCHANGED <<retry_count, consecutive_errors, hs_i, wait_time>>
    /\ UNCHANGED <<env, now, stop_evt, link_up_evt, thr, interface_created,
                   interface_error, create_thread, outgoing_q, incoming_q, store, ui,
                   rx, sent, confirmed, stop_inst, send_failed, reset_from>>

\* ------------------------------------------------ main.py callbacks (48-74)
on_connected ==
    /\ env.prog = "serial"
    /\ Alive /\ OpenInsts # {}
    /\ env.estab > 0
    /\ env' = Spend("estab")
    /\ link_up_evt' = TRUE
    /\ UNCHANGED <<now, stop_evt, radio, wloc, outgoing_q, incoming_q, store, ui, rx, hist>>

on_disconnected ==
    /\ env.prog = "serial"
    /\ Alive /\ OpenInsts # {}
    /\ env.lost > 0
    /\ env' = Spend("lost")
    /\ link_up_evt' = FALSE
    /\ UNCHANGED <<now, stop_evt, radio, wloc, outgoing_q, incoming_q, store, ui, rx, hist>>

\* line 50-51: on a dict, getattr finds no attribute and packet.get answers.
\* An object has no get: without a decoded attribute packet.get raises
\* AttributeError at 50, with one decoded.get raises it at 51
TextRaises(p) ==
    \/ p.form = "obj"
    \/ p.sender = "from"      \* line 58: packet.get("from", {}) is a number, .get raises

\* line 55-57: a dict has no rxTime attribute: its "timestamp" entry or the clock
TextTs(p) == NormalizeTs(IF p.hasStamp THEN p.stamp ELSE Clock)

\* lines 48-64: parse, write the log, execute the INSERT.  A dict without
\* text, or with an empty one, returns at 53.  Nothing catches an exception:
\* it leaves the callback, after the roll-back when the INSERT raised it.
on_text(p) ==
    /\ env.prog = "serial"
    /\ Alive /\ OpenInsts # {}
    /\ pc_rx \in RxReady
    /\ env.pkts > 0
    /\ rx_pkt' = p
    /\ heard' = Heard(heard, p)
    /\ LET item == <<TextTs(p), "unknown", Take(p.text, MAX_LEN)>> IN
       IF p.form = "dict" /\ (~p.hasText \/ p.text = <<>>)
       THEN /\ env' = Spend("pkts")
            /\ pc_rx' = "idle"
            /\ UNCHANGED <<txn, rx_item>>
       ELSE IF TextRaises(p) \/ ~json_fh
       THEN /\ env' = Spend("pkts")
            /\ pc_rx' = "raised"
            /\ UNCHANGED <<txn, rx_item>>
       ELSE \/ /\ db_open
               /\ env' = Spend("pkts")
               /\ txn' = Append(txn, item)
               /\ pc_rx' = "commit"
               /\ rx_item' = item
            \/ /\ env.dbfaults > 0
               /\ env' = [env EXCEPT !.pkts = @ - 1, !.dbfaults = @ - 1]
               /\ txn' = <<>>
               /\ pc_rx' = "append_raised"
               /\ UNCHANGED rx_item
    /\ UNCHANGED <<now, stop_evt, link_up_evt, radio, wloc, outgoing_q, incoming_q,
                   db, json_fh, db_open, ui, hist>>

\* lines 63-64: the end of the `with db:` block commits the transaction
TextCommit ==
    /\ env.prog = "serial"
    /\ Alive /\ pc_rx = "commit"
    /\ db' = Commit(db, txn)
    /\ txn' = <<>>
    /\ pc_rx' = "put"
    /\ UNCHANGED <<rx_item, rx_pkt, heard, json_fh, db_open>>
    /\ UNCHANGED <<env, now, stop_evt, link_up_evt, radio, wloc, outgoing_q, incoming_q,
                   ui, hist>>

\* line 66: incoming_q.put(item), which has no time-out
TextPut ==
    /\ env.prog = "serial"
    /\ Alive /\ pc_rx = "put"
    /\ HasRoom(incoming_q, INCOMING_CAP)
    /\ incoming_q' = Append(incoming_q, rx_item)
    /\ pc_rx' = "idle"
    /\ rx_item' = <<>>
    /\ UNCHANGED <<rx_pkt, heard>>
    /\ UNCHANGED <<env, now, stop_evt, link_up_evt, radio, wloc, outgoing_q, store,
                   ui, hist>>

\* ------------------------------------------------ main.py load_history (116-119)
load_history(rows, limit) == {Reversed(Take(o, limit)) : o \in OrderByTsDesc(rows)}

\* ------------------------------------------------ main.py run_ui (125-238)
\* line 133
RunUiLoad ==
    /\ env.prog = "serial"
    /\ pc_ui = "init"
    /\ msgs' \in load_history(Commit(db, txn), env.limit)
    /\ pc_ui' = "loop"
    /\ UNCHANGED <<send_mode, inp, put_msg, echo>>
    /\ UNCHANGED <<env, now, stop_evt, link_up_evt, radio, wloc, outgoing_q,
                   incoming_q, store, rx, hist>>

\* lines 144-186: the loop guard, the drain of the inbox, the redraw, getch()
RunUiTick ==
    /\ env.prog = "serial"
    /\ pc_ui = "loop"
    /\ IF stop_evt
       THEN pc_ui' = "returned" /\ UNCHANGED <<msgs, incoming_q>>
       ELSE /\ msgs' = msgs \o incoming_q
            /\ incoming_q' = <<>>
            /\ pc_ui' = "getch"
    /\ UNCHANGED <<send_mode, inp, put_msg, echo>>
    /\ UNCHANGED <<env, now, stop_evt, link_up_evt, radio, wloc, outgoing_q, store,
                   rx, hist>>

RunKeyIs(ks) == env.prog = "serial" /\ pc_ui = "getch" /\ env.keys # <<>> /\ Head(env.keys) \in ks

\* lines 234-236
RunKeySend ==
    /\ RunKeyIs({"s"}) /\ ~send_mode
    /\ TakeKey
    /\ send_mode' = TRUE
    /\ inp' = <<>>
    /\ pc_ui' = "loop"
    /\ UNCHANGED <<msgs, put_msg, echo>>
    /\ UNCHANGED <<now, stop_evt, link_up_evt, radio, wloc, outgoing_q,
                   incoming_q, store, rx, hist>>

\* lines 210-212
RunKeyChar ==
    /\ RunKeyIs(Printable) /\ send_mode
    /\ TakeKey
    /\ inp' = Append(inp, Head(env.keys))
    /\ pc_ui' = "loop"
    /\ UNCHANGED <<msgs, send_mode, put_msg, echo>>
    /\ UNCHANGED <<now, stop_evt, link_up_evt, radio, wloc, outgoing_q, incoming_q,
                   store, rx, hist>>

\* lines 191-198: Enter in send mode; a text that is not blank is dropped
\* while link_up_evt is clear; otherwise the INSERT is executed, and nothing
\* catches an INSERT that raises
RunKeyEnter ==
    /\ RunKeyIs({"Enter"}) /\ send_mode
    /\ LET text == Strip(inp)
           row  == <<Clock, "You", text>>
           e    == [env EXCEPT !.keys = Tail(@)]
       IN  /\ send_mode' = FALSE
           /\ inp' = <<>>
           /\ confirmed' = IF text = <<>> THEN confirmed ELSE Append(confirmed, text)
           /\ IF text = <<>> \/ ~link_up_evt
              THEN /\ env' = e
                   /\ pc_ui' = "loop"
                   /\ UNCHANGED <<txn, put_msg, echo>>
              ELSE \/ /\ env' = e
                      /\ txn' = Append(txn, row)
                      /\ echo' = row
                      /\ put_msg' = text
                      /\ pc_ui' = "commit"
                   \/ /\ env.dbfaults > 0
                      /\ env' = [e EXCEPT !.dbfaults = @ - 1]
                      /\ txn' = <<>>
                      /\ pc_ui' = "crashed"
                      /\ UNCHANGED <<put_msg, echo>>
    /\ UNCHANGED <<now, stop_evt, link_up_evt, radio, wloc, outgoing_q, incoming_q,
                   db, json_fh, db_open, msgs, rx, sent, stop_inst, stop_closes,
                   send_failed, reset_from>>

\* the text of the "ERR" row of line 205
SendFailedText == <<"s", "e", "n", "d", " ", "f", "a", "i", "l", "e", "d">>

\* lines 198-205: the commit, the row on the screen, and iface.sendText(text)
\* under iface_lock; a send that raises (the transport's fault, or no
\* interface at all) adds an "ERR" row to the screen
RunUiCommit ==
    /\ env.prog = "serial"
    /\ pc_ui = "commit"
    /\ db' = Commit(db, txn)
    /\ txn' = <<>>
    /\ \/ /\ iface # 0
          /\ sent' = Append(sent, <<put_msg, TRUE>>)
          /\ msgs' = Append(msgs, echo)
          /\ UNCHANGED env
       \/ /\ iface # 0 /\ env.faults > 0
          /\ env' = Spend("faults")
          /\ sent' = Append(sent, <<put_msg, FALSE>>)
          /\ msgs' = msgs \o <<echo, <<Clock, "ERR", SendFailedText>>>>
       \/ /\ iface = 0
          /\ msgs' = msgs \o <<echo, <<Clock, "ERR", SendFailedText>>>>
          /\ UNCHANGED <<env, sent>>
    /\ echo' = <<>>
    /\ put_msg' = <<>>
    /\ pc_ui' = "loop"
    /\ UNCHANGED <<send_mode, inp, json_fh, db_open>>
    /\ UNCHANGED <<now, stop_evt, link_up_evt, radio, wloc, outgoing_q, incoming_q,
                   rx, confirmed, stop_inst, stop_closes, send_failed, reset_from>>

\* line 250: an exception that leaves run_ui passes through curses.wrapper and
\* ends main() before its clean-up
RunRaise ==
    /\ env.prog = "serial"
    /\ pc_ui = "crashed"
    /\ pc_ui' = "exited"
    /\ UNCHANGED <<msgs, send_mode, inp, put_msg, echo>>
    /\ UNCHANGED <<env, now, stop_evt, link_up_evt, radio, wloc, outgoing_q,
                   incoming_q, store, rx, hist>>

\* lines 242-243: the signal handlers of main()
SerialSignal ==
    /\ env.prog = "serial"
    /\ Alive
    /\ env.sigs > 0
    /\ env' = Spend("sigs")
    /\ SetStop
    /\ UNCHANGED <<now, link_up_evt, radio, wloc, outgoing_q, incoming_q, store, ui, rx,
                   sent, confirmed, send_failed, reset_from>>

\* ================================================================ specifications
InitStored(b, rows) ==
    /\ env = b
    /\ now = 0
    /\ stop_evt = FALSE /\ link_up_evt = FALSE
    /\ iface = 0 /\ inst = <<>> /\ thr = <<>>
    /\ interface_created = FALSE /\ interface_error = FALSE /\ create_thread = 0
    /\ pc_w = IF b.prog = "ble" THEN "start" ELSE "s_guard"
    /\ retry_count = 0 /\ consecutive_errors = 0 /\ hs_i = 0 /\ wait_time = 0
    /\ outgoing_q = <<>> /\ incoming_q = <<>>
    /\ db = rows /\ txn = <<>> /\ json_fh = TRUE /\ db_open = TRUE
    /\ pc_ui = "init" /\ msgs = <<>> /\ send_mode = FALSE /\ inp = <<>> /\ put_msg = <<>>
    /\ echo = <<>> /\ rx_pkt = <<>> /\ heard = <<>>
    /\ pc_rx = "idle" /\ rx_item = <<>>
    /\ sent = <<>> /\ confirmed = <<>> /\ stop_inst = 0 /\ stop_closes = 0
    /\ send_failed = FALSE /\ reset_from = -1

\* a run that starts with an empty table
InitWith(b) == InitStored(b, <<>>)

NoBudget == [prog |-> "ble", addr |-> TRUE, faults |-> 0, slow |-> 0, nouser |-> 0, estab |-> 0, lost |-> 0,
             keys |-> <<>>, sigs |-> 0, pkts |-> 0, ticks |-> 0, dbfaults |-> 0,
             feed |-> {}, limit |-> HISTORY_LIMIT]

\* n copies of seq, one after the other
Repeat(seq, n) == [i \in 1..(n * Len(seq)) |-> seq[((i - 1) % Len(seq)) + 1]]

\* the user composes n texts
Compose(n) == Repeat(<<"s", "a", "Enter">>, n)

Supervisor ==
    \/ WorkerStart \/ WorkerAttempt \/ CreateWaitSet \/ CreateWaitTimeout
    \/ HandshakeStep \/ FinalVerify \/ DrainCheck \/ DrainEmpty
    \/ Cleanup \/ CleanupClose \/ BackoffDone

Worker == Supervisor \/ DrainSend

Creators == \E k \in DOMAIN thr : CreateInterface(k) \/ SignalCreated(k)

Foreground == UiLoad \/ UiTick \/ UiCommit \/ OutboxPut

Editing == KeySend \/ KeyChar \/ KeyBackspace \/ KeyEsc \/ KeyEnter

Teardown == MainStop \/ MainCloseLog \/ MainExit

\* ---- SpecRetry: the retry loop under transport faults, with no shutdown
\* signal.  The initial states are four kinds of run: many transport faults; a
\* creation that outlasts its wait; a user who sends texts over a faulty link;
\* no BLE address.
BudgetFaults == [NoBudget EXCEPT !.faults = MaxFaults, !.nouser = 1]
BudgetSlow   == [NoBudget EXCEPT !.slow = MaxSlow]
BudgetSend   == [NoBudget EXCEPT !.faults = MAX_ERRORS,
                    !.keys = <<"s", "b", "Bksp", " ", "Esc">> \o Compose(MaxSends)]
BudgetNoAddr == [NoBudget EXCEPT !.addr = FALSE]

InitRetry == \E b \in {BudgetFaults, BudgetSlow, BudgetSend, BudgetNoAddr} : InitWith(b)
NextRetry == Worker \/ Creators \/ Foreground \/ Editing
SpecRetry == InitRetry /\ [][NextRetry]_vars

\* the threads run: the scheduler is fair to the worker, to the creation
\* threads and to the main thread; the transport and the user owe nothing
FairRetry == SpecRetry /\ WF_vars(Worker) /\ WF_vars(Creators) /\ WF_vars(Foreground)

\* ---- SpecInbox: a burst of text packets while the foreground waits for a
\* key.  The run starts where SpecRetry arrives when the first attempt connects
\* and the foreground has drawn its first frame: the worker in its drain loop,
\* the main thread in getch().
IdleConnected ==
    /\ now = 0
    /\ stop_evt = FALSE /\ link_up_evt = TRUE
    /\ iface = 1 /\ inst = (1 :> "user") /\ thr = <<>>
    /\ interface_created = TRUE /\ interface_error = FALSE /\ create_thread = 1
    /\ pc_w = "drain_guard"
    /\ retry_count = 0 /\ consecutive_errors = 0 /\ hs_i = 0 /\ wait_time = 0
    /\ outgoing_q = <<>> /\ incoming_q = <<>>
    /\ db = <<>> /\ txn = <<>> /\ json_fh = TRUE /\ db_open = TRUE
    /\ pc_ui = "getch" /\ msgs = <<>> /\ send_mode = FALSE /\ inp = <<>> /\ put_msg = <<>>
    /\ echo = <<>> /\ rx_pkt = <<>> /\ heard = <<>>
    /\ pc_rx = "idle" /\ rx_item = <<>>
    /\ sent = <<>> /\ confirmed = <<>> /\ stop_inst = 0 /\ stop_closes = 0
    /\ send_failed = FALSE /\ reset_from = 0

BurstPacket == [form |-> "dict", hasText |-> TRUE, text |-> <<"h", "i">>,
                sender |-> "fromId", hasRx |-> TRUE, rxTime |-> Ts(17 * 10^8),
                hasStamp |-> FALSE, stamp |-> Ts(0)]

\* the same moment of main.py: radio_worker holds the open interface
SerialIdle ==
    /\ now = 0
    /\ stop_evt = FALSE /\ link_up_evt = TRUE
    /\ iface = 1 /\ inst = (1 :> "user") /\ thr = <<>>
    /\ interface_created = FALSE /\ interface_error = FALSE /\ create_thread = 0
    /\ pc_w = "s_hold"
    /\ retry_count = 0 /\ consecutive_errors = 0 /\ hs_i = 0 /\ wait_time = 0
    /\ outgoing_q = <<>> /\ incoming_q = <<>>
    /\ db = <<>> /\ txn = <<>> /\ json_fh = TRUE /\ db_open = TRUE
    /\ pc_ui = "getch" /\ msgs = <<>> /\ send_mode = FALSE /\ inp = <<>> /\ put_msg = <<>>
    /\ echo = <<>> /\ rx_pkt = <<>> /\ heard = <<>>
    /\ pc_rx = "idle" /\ rx_item = <<>>
    /\ sent = <<>> /\ confirmed = <<>> /\ stop_inst = 0 /\ stop_closes = 0
    /\ send_failed = FALSE /\ reset_from = -1

BudgetInbox == [NoBudget EXCEPT !.pkts = INCOMING_CAP + 1]

InitInbox ==
    \/ env = BudgetInbox /\ IdleConnected
    \/ env = [BudgetInbox EXCEPT !.prog = "serial"] /\ SerialIdle
NextInbox == on_receive_text(BurstPacket) \/ RxCommit \/ InboxPut \/ DrainCheck \/ DrainEmpty
               \/ on_text(BurstPacket) \/ TextCommit \/ TextPut
SpecInbox == InitInbox /\ [][NextInbox]_vars

\* ---- SpecOutbox: the user composes one text more than the outbox holds while
\* no worker takes them (there is no BLE address: the worker has returned),
\* and a signal may arrive at any moment.
BudgetOutbox == [NoBudget EXCEPT !.addr = FALSE, !.sigs = 1,
                    !.keys = Compose(OUTGOING_CAP + 1)]

InitOutbox == InitWith(BudgetOutbox)
NextOutbox == WorkerStart \/ Foreground \/ KeySend \/ KeyChar \/ KeyEnter \/ Signal \/ Teardown
SpecOutbox == InitOutbox /\ [][NextOutbox]_vars

\* the main thread runs whenever it can; the user and the signal owe nothing
FairOutbox == SpecOutbox /\ WF_vars(WorkerStart) /\ WF_vars(Foreground \/ Teardown)

\* ---- SpecStop: shutdown, by the q key or by a signal, at any moment of a run
\* with a transport fault, a slow creation, a late connection callback and a
\* text on its way.
BudgetQuit   == [NoBudget EXCEPT !.faults = 1, !.estab = 1,
                    !.keys = <<"s", "b", "Bksp", "Esc">> \o Compose(1) \o <<"q">>]
BudgetSignal == [NoBudget EXCEPT !.slow = 1, !.estab = 1, !.sigs = 1]

InitStop == \E b \in {BudgetQuit, BudgetSignal} : InitWith(b)
NextStop == Worker \/ Creators \/ Foreground \/ Editing \/ KeyQuit \/ Signal \/ Teardown
              \/ on_connection_established
SpecStop == InitStop /\ [][NextStop]_vars

\* ---- SpecLost: the transport reports the link lost, in runs with a transport
\* fault and a slow creation.
BudgetLost == [NoBudget EXCEPT !.faults = 1, !.slow = 1, !.estab = 1, !.lost = 1]
BudgetSerialLost == [NoBudget EXCEPT !.prog = "serial", !.faults = 1, !.estab = 1,
                        !.lost = 1, !.sigs = 1, !.pkts = 1]

SerialWorker == SerialOpen \/ SerialHold \/ SerialExcept \/ SerialFinally

InitLost ==
    \/ InitWith(BudgetLost)
    \/ InitWith(BudgetSerialLost)
NextLost == Supervisor \/ Creators \/ UiLoad \/ UiTick
              \/ on_connection_established \/ on_connection_lost
              \/ SerialWorker \/ on_connected \/ on_disconnected \/ SerialSignal
              \/ on_text(BurstPacket) \/ TextCommit \/ TextPut
SpecLost == InitLost /\ [][NextLost]_vars
FairLost == SpecLost /\ WF_vars(Supervisor) /\ WF_vars(Creators) /\ WF_vars(UiLoad \/ UiTick)
                     /\ WF_vars(SerialWorker) /\ WF_vars(TextCommit \/ TextPut)

\* ---- SpecData: text packets of several kinds arrive while the user composes a
\* text, in both programs, from the moment of IdleConnected / SerialIdle.  An
\* INSERT may raise once (the disk is full, the database is locked by the other
\* program, a value cannot be bound); the clock may advance; in main.py the
\* transport may report the link lost.
SecondsPacket == [BurstPacket EXCEPT !.rxTime = Ts(17 * 10^8 - 5)]
MillisPacket  == [BurstPacket EXCEPT !.sender = "from", !.rxTime = TsMilli(17 * 10^8)]
EmptyPacket   == [BurstPacket EXCEPT !.text = <<>>]
NoTextPacket  == [BurstPacket EXCEPT !.hasText = FALSE, !.text = <<>>]
ObjectPacket  == [BurstPacket EXCEPT !.form = "obj", !.sender = "from"]
LongPacket    == [BurstPacket EXCEPT !.text = Repeat(<<"x">>, MAX_LEN + 1)]
StampPacket   == [BurstPacket EXCEPT !.sender = "none", !.hasRx = FALSE,
                     !.hasStamp = TRUE, !.stamp = TsMilli(17 * 10^8)]
BarePacket    == [BurstPacket EXCEPT !.sender = "none", !.hasRx = FALSE]
NoTextObject  == [NoTextPacket EXCEPT !.form = "obj"]

BudgetData == [NoBudget EXCEPT !.pkts = MaxPkts, !.dbfaults = 1, !.ticks = 1,
                  !.feed = {MillisPacket, EmptyPacket, ObjectPacket, NoTextPacket,
                            NoTextObject},
                  !.keys = <<"s", " ", "Enter">> \o Compose(1)]
BudgetLong == [NoBudget EXCEPT !.pkts = 1, !.feed = {LongPacket},
                  !.keys = <<"s">> \o Repeat(<<"a">>, MAX_LEN + 1) \o <<"Enter">>]
BudgetSerialData == [NoBudget EXCEPT !.prog = "serial", !.pkts = MaxPkts, !.dbfaults = 1,
                        !.ticks = 1, !.lost = 1,
                        !.feed = {SecondsPacket, StampPacket, BarePacket, EmptyPacket,
                                  NoTextPacket, NoTextObject},
                        !.keys = Compose(1)]
BudgetSerialLong == [BudgetLong EXCEPT !.prog = "serial"]

InitData ==
    \/ env \in {BudgetData, BudgetLong} /\ IdleConnected
    \/ env \in {BudgetSerialData, BudgetSerialLong} /\ SerialIdle

Ingest == (\E p \in env.feed : on_receive_text(p)) \/ RxCommit \/ InboxPut
SerialIngest == (\E p \in env.feed : on_text(p)) \/ TextCommit \/ TextPut
RunForeground == RunUiTick \/ RunKeySend \/ RunKeyChar \/ RunKeyEnter \/ RunUiCommit \/ RunRaise

NextData ==
    \/ Ingest \/ UiTick \/ KeySend \/ KeyChar \/ KeyEnter \/ UiCommit \/ OutboxPut \/ MainRaise
    \/ DrainCheck \/ DrainSend \/ DrainEmpty
    \/ SerialIngest \/ RunForeground \/ on_disconnected
    \/ Tick
SpecData == InitData /\ [][NextData]_vars

\* ---- SpecHistory: the history is loaded from a table that earlier runs have
\* filled: up to MaxRows rows, told apart by their texts, with time stamps that
\* may coincide, in either program, for each limit up to MaxRows.
StoredRows ==
    UNION {{[i \in 1..n |-> <<Ts(17 * 10^8 + f[i]), "You", Repeat(<<"a">>, i)>>] :
               f \in [1..n -> 0..(MaxRows - 1)]} : n \in 0..MaxRows}

InitHistory ==
    \E prog \in {"ble", "serial"}, limit \in 0..MaxRows, rows \in StoredRows :
        InitStored([NoBudget EXCEPT !.prog = prog, !.limit = limit], rows)
NextHistory == UiLoad \/ RunUiLoad
SpecHistory == InitHistory /\ [][NextHistory]_vars

\* ---- SpecStore: whole runs of either program, from the start of main() to
\* its end: the worker connects (an attempt may fail first), text packets
\* arrive from the moment an interface is being created, so also before the
\* foreground has loaded its history, the user sends a text and quits (or a
\* signal arrives), and an INSERT may raise once.
BudgetStore == [NoBudget EXCEPT !.faults = 1, !.pkts = MaxPkts, !.dbfaults = 1,
                   !.feed = {MillisPacket},
                   !.keys = Compose(1) \o <<"q">>]
BudgetSerialStore == [BudgetStore EXCEPT !.prog = "serial", !.estab = 1, !.sigs = 1,
                         !.feed = {StampPacket}, !.keys = Compose(1)]

InitStore == InitWith(BudgetStore) \/ InitWith(BudgetSerialStore)
NextStore ==
    \/ Worker \/ Creators \/ Ingest
    \/ Foreground \/ KeySend \/ KeyChar \/ KeyEnter \/ KeyQuit \/ MainRaise \/ Teardown
    \/ SerialWorker \/ on_connected \/ SerialIngest
    \/ RunUiLoad \/ RunForeground \/ SerialSignal
SpecStore == InitStore /\ [][NextStore]_vars

\* ================================================================ claims
\* LinkState of the supervisor, read off the position of _radio_worker
LinkState ==
    CASE pc_w = "start" -> "DISCONNECTED"
      [] pc_w \in {"guard", "create_wait", "handshake", "final"} -> "CONNECTING"
      [] pc_w \in DrainPcs -> "CONNECTED"
      [] pc_w \in {"cleanup", "cleanup_close", "backoff"} -> "ERROR_BACKOFF"
      [] pc_w = "done" -> "STOPPED"
      [] pc_w = "s_guard" -> "CONNECTING"
      [] pc_w = "s_hold" -> "CONNECTED"
      [] pc_w \in {"s_except", "s_finally"} -> "ERROR_BACKOFF"
      [] pc_w = "s_done" -> "STOPPED"
      [] OTHER -> "undefined"

Connected == pc_w \in DrainPcs /\ link_up_evt
GaveUp == pc_w = "done" /\ retry_count >= max_retries
NoAddress == pc_w = "done" /\ ~env.addr

C3_IngestNeverWaits == ~(pc_rx = "put" /\ ~HasRoom(incoming_q, INCOMING_CAP))

\* C4: the foreground is never held up by the outbox: the main thread is never
\* waiting in outgoing_q.put on a full queue.
C4_OfferNeverWaits == ~(pc_ui = "put" /\ ~HasRoom(outgoing_q, OUTGOING_CAP))

\* C5: when stop_evt was set during a live session, the worker thread does not
\* end (by returning, by an exception, or with the process) without exactly
\* one close() of the instance that session held.
C5_ClosedOnce ==
    (stop_inst # 0 /\ (pc_w \in {"done", "crashed"} \/ ~Alive)) => stop_closes = 1

\* C6: once stop_evt is set, no step sets link_up_evt.
C6_StoppedIsTerminal == [][stop_evt => (link_up_evt' => link_up_evt)]_vars

\* C7: once stop_evt is set, the main thread leaves its loop and main()
\* returns, which also ends the daemon worker.
C7_BothExit == stop_evt ~> (pc_ui = "exited")

\* C8: a session (the drain loop of _radio_worker, the hold loop of main.py's
\* radio_worker) during which the link-lost callback cleared link_up_evt is
\* eventually ended: the supervisor goes on to ERROR_BACKOFF.
C8_LostLeadsToBackoff ==
    (LinkState = "CONNECTED" /\ ~link_up_evt /\ env.lost = 0) ~> (LinkState = "ERROR_BACKOFF")

Count(seq, x) == Cardinality({i \in DOMAIN seq : seq[i] = x})
SentTexts == [i \in DOMAIN sent |-> sent[i][1]]

\* C10: every text has been passed to sendText at most as often as the user
\* confirmed it.
C10_AtMostOnce ==
    \A i \in DOMAIN sent : Count(SentTexts, sent[i][1]) <= Count(confirmed, sent[i][1])

\* a send failed, the supervisor has reconnected, and the outbox is empty
C10_Witness ==
    /\ \E i \in DOMAIN sent : ~sent[i][2]
    /\ Connected /\ ~send_failed /\ outgoing_q = <<>> /\ env.keys = <<>>

Rows(seq) == {seq[i] : i \in DOMAIN seq}

\* the sum of f over the finite set S
RECURSIVE Sum(_, _)
Sum(f, S) == IF S = {} THEN 0 ELSE LET x == CHOOSE x \in S : TRUE IN f[x] + Sum(f, S \ {x})

\* a row that came in over the radio: its sender is not the user's tag "You",
\* nor the "ERR" tag of main.py's send errors
Inbound(row) == row[2] \notin {"You", "ERR"}

\* C11: persist first, enqueue second: every message that is in the inbox, or
\* that the foreground took from the inbox into its list, is a row of the
\* messages table.
C11_PersistFirst ==
    /\ \A i \in DOMAIN incoming_q : incoming_q[i] \in Rows(db)
    /\ \A i \in DOMAIN msgs : Inbound(msgs[i]) => msgs[i] \in Rows(db)

\* C12: appends of the callback and of the foreground over the shared
\* connection do not disturb each other: every append that has returned
\* normally (the callback is at its put, the foreground has shown its row)
\* has left its row committed in the table.
C12_AppendsCommitted ==
    /\ pc_rx = "put" => rx_item \in Rows(db)
    /\ \A i \in DOMAIN msgs : msgs[i][2] = "You" => msgs[i] \in Rows(db)

\* C13: an INSERT that raises is never raised into the caller of the text
\* callback, nor into the foreground's send confirmation.
C13_AppendNeverRaises == pc_rx # "append_raised" /\ pc_ui # "crashed"

\* C14: when the user confirms a text that is not blank while link_up_evt is
\* clear (and the INSERT does not raise), the row (now, "You", text) is
\* written to the table and is the echo put on the screen.
C14_EchoWithoutLink ==
    [][(/\ confirmed' # confirmed
        /\ ~link_up_evt
        /\ env'.dbfaults = env.dbfaults)
       => (/\ echo' = <<Clock, "You", confirmed'[Len(confirmed')]>>
           /\ echo' \in Rows(txn'))]_vars

\* C15: no text in the table, in the inbox or in the foreground's list is
\* longer than MAX_LEN, and a text longer than MAX_LEN that came in over the
\* radio is stored with exactly MAX_LEN characters.
C15_AtMostMaxLen ==
    /\ \A row \in Rows(db) \cup Rows(incoming_q) \cup Rows(msgs) : Len(row[3]) <= MAX_LEN
    /\ (pc_rx = "put" /\ Len(rx_pkt.text) > MAX_LEN) => Len(rx_item[3]) = MAX_LEN

\* C16: in retro-ui no message in the table, in the inbox or in the
\* foreground's list has an empty text.
C16_NoEmptyText ==
    env.prog = "ble" =>
        \A row \in Rows(db) \cup Rows(incoming_q) \cup Rows(msgs) : row[3] # <<>>

\* C17: the time stamp a text callback stores is the packet's capture time
\* rxTime, divided by 1000 when it is greater than 1e12 and unchanged
\* otherwise, and the row inserted is the item handed to the inbox.
C17_SecondsStored ==
    [][(pc_rx # "commit" /\ pc_rx' = "commit") =>
          /\ rx_item' = txn'[Len(txn')]
          /\ rx_pkt'.hasRx =>
                rx_item'[1] = IF TsGt(rx_pkt'.rxTime, MS_THRESHOLD) THEN TsDiv1000(rx_pkt'.rxTime)
                              ELSE rx_pkt'.rxTime]_vars

\* C18: in retro-ui, once every callback has returned, the table holds for
\* each text that is not empty as many inbound rows as packets with that text
\* were delivered: one row for each delivery.
C18_OneRowEach ==
    (env.prog = "ble" /\ pc_rx \in RxReady /\ txn = <<>>) =>
        \A p \in DOMAIN heard :
            (p.hasText /\ p.text # <<>>) =>
                Cardinality({i \in DOMAIN db : Inbound(db[i]) /\ db[i][3] = PacketText(p)})
                  = Sum(heard, {q \in DOMAIN heard : q.hasText /\ q.text = p.text})

\* the foreground has loaded the history (and, in SpecHistory, done no more)
Loaded == pc_ui = "loop"

Ascending(rows) == \A i \in 1..(Len(rows) - 1) : ~TsGt(rows[i][1], rows[i + 1][1])

\* no row left out is newer than a row of sel
Greatest(sel, rows) == \A r \in Rows(sel), q \in Rows(rows) \ Rows(sel) : ~TsGt(q[1], r[1])

\* min(limit, count) different rows of the table, those with the greatest
\* time stamps, oldest first
RecentAscending ==
    /\ Len(msgs) = Min(env.limit, Len(db))
    /\ Rows(msgs) \subseteq Rows(db) /\ Cardinality(Rows(msgs)) = Len(msgs)
    /\ Greatest(msgs, db)
    /\ Ascending(msgs)

\* C19 as claimed: the history loaded is min(limit, count) rows, those with
\* the greatest time stamps, oldest first; and when the row appended last has
\* a time stamp not smaller than every earlier row's, it is the last element.
C19_Original ==
    Loaded =>
        /\ RecentAscending
        /\ (/\ db # <<>> /\ env.limit >= 1
            /\ \A i \in 1..(Len(db) - 1) : ~TsGt(db[i][1], db[Len(db)][1]))
           => msgs[Len(msgs)] = db[Len(db)]

\* C19 as amended: the same, with the last clause for a row appended last
\* whose time stamp is greater than every earlier row's.
C19_Amended ==
    Loaded =>
        /\ RecentAscending
        /\ (/\ db # <<>> /\ env.limit >= 1
            /\ \A i \in 1..(Len(db) - 1) : TsGt(db[Len(db)][1], db[i][1]))
           => msgs[Len(msgs)] = db[Len(db)]

\* a limit smaller than the table, which holds two rows of equal time stamp
\* and a newer row appended last
C19_Witness ==
    /\ Loaded /\ env.limit >= 1 /\ env.limit < Len(db)
    /\ \E i, j \in DOMAIN db : i < j /\ db[i][1] = db[j][1]
    /\ \A i \in 1..(Len(db) - 1) : TsGt(db[Len(db)][1], db[i][1])
    /\ msgs[Len(msgs)] = db[Len(db)]

\* C20: from one failed attempt to the next of a run of failures in a row, the
\* backoff wait does not get shorter, and no backoff wait is longer than 60 s.
C20_BackoffGrows ==
    [][(pc_w = "cleanup_close" /\ pc_w' = "backoff") =>
          /\ wait_time' <= BACKOFF_CAP
          /\ retry_count >= 2 => wait_time' >= wait_time]_vars

\* the wait after the ninth failure in a row, 55 s
C20_Witness ==
    /\ pc_w = "backoff" /\ retry_count = max_retries - 1
    /\ wait_time = BACKOFF_BASE + (max_retries - 1) * BACKOFF_STEP

\* C21: the backoff wait that follows a session whose connection was verified
\* is the base delay, the one computed with retry_count = 0, however many
\* attempts had failed before that connection; and without shutdown such a
\* session is always followed by a backoff wait.
C21_BackoffResets ==
    [][(pc_w = "cleanup_close" /\ reset_from >= 0 /\ pc_w' # pc_w) =>
          /\ pc_w' = "backoff" => wait_time' = BackoffDelay(0)
          /\ (~stop_evt /\ json_fh) => pc_w' = "backoff"]_vars

\* the wait after a session that was verified after failed attempts
C21_Witness == pc_w = "backoff" /\ reset_from >= 1 /\ wait_time = BACKOFF_BASE

\* s is an initial part of t
IsPrefix(s, t) == Len(s) <= Len(t) /\ SubSeq(t, 1, Len(s)) = s

\* C22: in retro-ui the inbox is first in, first out, and the foreground's list
\* only grows at its end: a step that changes the inbox either puts one item
\* behind those waiting or moves all of them, in their order, to the end of the
\* list; and every step leaves the entries the list had where they were.
C22_FifoInbox ==
    [][env.prog = "ble" =>
          /\ IsPrefix(msgs, msgs')
          /\ incoming_q' # incoming_q =>
                \/ Len(incoming_q') = Len(incoming_q) + 1 /\ IsPrefix(incoming_q, incoming_q')
                \/ incoming_q' = <<>> /\ msgs' = msgs \o incoming_q]_vars

\* the list shows, after an earlier entry, two different messages that came in
\* over the radio and went through the inbox
C22_Witness ==
    /\ env.prog = "ble" /\ incoming_q = <<>> /\ Len(msgs) >= 3
    /\ \E i, j \in DOMAIN msgs :
          i < j /\ Inbound(msgs[i]) /\ Inbound(msgs[j]) /\ msgs[i] # msgs[j]

\* C23: a text callback handed a packet without a text payload returns
\* normally and changes nothing: not the messages table (nor the rows waiting
\* to be committed), not the inbox, not the link state.
C23_NoTextIgnored ==
    [][(heard' # heard /\ ~rx_pkt'.hasText) =>
          /\ pc_rx' = "idle"
          /\ UNCHANGED <<db, txn, incoming_q, link_up_evt, pc_w>>]_vars

C25_OneTransport == Cardinality(DOMAIN inst) <= 1

\* the BLEInterface constructor of thread k has not returned yet
Constructing(k) == k \in DOMAIN thr /\ thr[k] = "new"

\* C26: an attempt leaves its creation wait as 'created', or with a creation
\* error, only on the outcome of the creation thread it started: never while
\* the constructor of that thread is still running.
C26_OwnCreation ==
    [][(pc_w = "create_wait" /\ pc_w' # pc_w /\ (interface_created \/ interface_error))
          => ~Constructing(create_thread)]_vars

\* C27: in retro-ui the link indicator is up only while the supervisor holds a
\* transport: link_up_evt set implies that _iface is not None.
C27_LinkedMeansHeld == (env.prog = "ble" /\ link_up_evt) => iface # 0

\* C28: in retro-ui, in a run that starts with an empty table, the
\* foreground's list holds no more entries that came in over the radio than
\* packets were handed to the text callback: no message is in the list twice,
\* once loaded from the table and once taken from the inbox.
C28_ListedOnce ==
    env.prog = "ble" =>
        Cardinality({i \in DOMAIN msgs : Inbound(msgs[i])}) <= Sum(heard, DOMAIN heard)

\* the step is a sendText call of the drain loop, with the given outcome
DrainSent(ok) ==
    pc_w = "drain_get" /\ Len(sent') = Len(sent) + 1 /\ sent'[Len(sent')][2] = ok

\* the step is a pass of the drain loop that found the outbox empty
DrainIdle == pc_w = "drain_get" /\ outgoing_q = <<>> /\ pc_w' = "drain_guard"

\* the counting of the drain loop: a sendText that succeeds sets the count of
\* failures to zero, one that fails adds one; a heartbeat that fails adds one
\* and one that succeeds leaves the count; without stop_evt the session is
\* left exactly when the count has reached three
DrainCounting ==
    /\ [][DrainSent(TRUE) => consecutive_errors' = 0]_vars
    /\ [][DrainSent(FALSE) => consecutive_errors' = consecutive_errors + 1]_vars
    /\ [][DrainIdle => consecutive_errors' =
              IF env'.faults < env.faults THEN consecutive_errors + 1 ELSE consecutive_errors]_vars
    /\ [][(pc_w \in DrainPcs /\ pc_w' \notin DrainPcs /\ ~stop_evt)
              => (pc_w' = "cleanup" /\ consecutive_errors' = MAX_ERRORS)]_vars
    /\ [][(pc_w = "drain_guard" /\ pc_w' = "drain_get") => consecutive_errors < MAX_ERRORS]_vars
    /\ [][(pc_w = "drain_guard" /\ consecutive_errors >= MAX_ERRORS /\ pc_w' # pc_w)
              => pc_w' = "cleanup"]_vars

\* C29: without shutdown the drain loop counts as DrainCounting says, and as
\* long as the session lasts the loop works on one and the same transport
\* instance: _iface does not change between entering the loop and leaving it.
C29_DrainLoop ==
    /\ DrainCounting
    /\ [][(pc_w \in DrainPcs /\ pc_w' \in DrainPcs) => iface' = iface]_vars

====
